---- MODULE Spec2Model ----
(***************************************************************************)
(* Model of the performance-roster extraction tool: the App component's    *)
(* state machine (src/App.tsx, the variant with duplicate-name detection, *)
(* lines 282-536), the document loaders (src/utils/pdfUtils.ts,            *)
(* src/utils/docxUtils.ts) and the extraction client                       *)
(* (src/services/geminiService.ts, lines 110-245).                         *)
(*                                                                         *)
(* Strings are TLA+ strings; the Chinese UI texts of the source are        *)
(* written as ASCII stand-ins, one distinct stand-in per source literal.   *)
(* An optional value (T | null | undefined) is a sequence of length 0 or 1.*)
(***************************************************************************)
EXTENDS Integers, Sequences, FiniteSets, TLC

\* ------------------------------------------------------------------ bounds
MaxFiles == 2       \* files in one selection
MaxPages == 2       \* pages of one PDF
MaxRecords == 2     \* records a run may accumulate (caps the response sizes)
MaxNow == 1         \* largest value Date.now() returns

\* ------------------------------------------------------- optional values
None == <<>>
Some(v) == <<v>>
IsSome(o) == o # <<>>
Get(o) == o[1]

\* --------------------------------------------------------- string helpers
\* String.prototype.includes
Includes(s, t) ==
  \E k \in 1..(Len(s) - Len(t) + 1) : SubSeq(s, k, k + Len(t) - 1) = t

\* String.prototype.endsWith
EndsWith(s, t) ==
  /\ Len(s) >= Len(t)
  /\ SubSeq(s, Len(s) - Len(t) + 1, Len(s)) = t

IsSpace(c) == c \in {" ", "\n", "\t"}

RECURSIVE TrimStart(_)
TrimStart(s) ==
  IF Len(s) > 0 /\ IsSpace(SubSeq(s, 1, 1))
    THEN TrimStart(SubSeq(s, 2, Len(s)))
    ELSE s

RECURSIVE TrimEnd(_)
TrimEnd(s) ==
  IF Len(s) > 0 /\ IsSpace(SubSeq(s, Len(s), Len(s)))
    THEN TrimEnd(SubSeq(s, 1, Len(s) - 1))
    ELSE s

\* String.prototype.trim
Trim(s) == TrimEnd(TrimStart(s))

\* ------------------------------------------------------------ App states
AppState == {"IDLE", "PROCESSING", "COMPLETED", "ERROR"}

\* ------------------------------------------------------------ credential
\* process.env.API_KEY as injected at build time: undefined or a string.
ApiKeys ==
  { None, Some(""), Some("undefined"), Some("short"),
    Some("process.env.API_KEY"), Some("AIzaSyD-valid-key-0001") }

MinKeyLength == 10

\* apiKeyStatus testing only that a key is present.
apiKeyStatus_PresenceOnly(key) ==
  IF ~IsSome(key) \/ Get(key) = "" THEN "missing" ELSE "configured"

\* App.apiKeyStatus
apiKeyStatus(key) ==
  IF \/ ~IsSome(key)
     \/ Get(key) = ""
     \/ Get(key) = "undefined"
     \/ Len(Get(key)) < MinKeyLength
     \/ Includes(Get(key), "process.env")
    THEN "missing"
    ELSE "configured"

\* --------------------------------------------------------------- messages
MsgKeyNotSet == "API_KEY_NOT_SET"
MsgUnknownApp == "App: unknown error"
MsgNoApiKey == "API_KEY not found, set the environment variable and redeploy"
MsgExtractFailed == "Extraction failed"
MsgRateLimit == "Too many API requests (Rate Limit Exceeded), retry in a minute"
MsgKeyInvalid == "API key invalid or expired, check the environment variable"
MsgForbidden == "Permission denied, check API access and billing"
MsgServerBusy == "Google server busy, retry later"
MsgDocxUnreadable == "Cannot read the Word file content"
MsgPreparing == "preparing..."

\* ------------------------------------------------------------------ files
MimePdf == "application/pdf"
MimeDocx == "application/vnd.openxmlformats-officedocument.wordprocessingml.document"
MimeDoc == "application/msword"

\* The File objects a user can offer: name, MIME type, size.
FileUniverse ==
  { [name |-> "a.pdf",  type |-> MimePdf,      size |-> 1],
    [name |-> "b.docx", type |-> MimeDocx,     size |-> 1],
    [name |-> "c.doc",  type |-> MimeDoc,      size |-> 1],
    [name |-> "d.txt",  type |-> "text/plain", size |-> 1] }

\* DropZone.isValidFile
isValidFile(file) ==
  \/ file.type = MimePdf
  \/ file.type = MimeDocx
  \/ file.type = MimeDoc
  \/ EndsWith(file.name, ".docx")
  \/ EndsWith(file.name, ".doc")
  \/ EndsWith(file.name, ".pdf")

\* Array.prototype.filter(isValidFile)
RECURSIVE FilterValid(_)
FilterValid(files) ==
  IF files = <<>> THEN <<>>
  ELSE IF isValidFile(Head(files))
    THEN <<Head(files)>> \o FilterValid(Tail(files))
    ELSE FilterValid(Tail(files))

\* The branch conditions of the file loop in handleStartProcessing.
IsPdfFile(file) == file.type = MimePdf \/ EndsWith(file.name, ".pdf")
IsDocxFile(file) == ~IsPdfFile(file) /\ EndsWith(file.name, ".docx")

\* ---------------------------------------------------------------- results
\* The outcome of an awaited call: a value, or a thrown Error and its message
\* (an Error without a message has message None).
Ok(v) == [ok |-> TRUE, value |-> v]
Thrown(m) == [ok |-> FALSE, message |-> m]

\* ----------------------------------------------------------- PDF documents
\* What pdf.js finds in a file: whether the document opens, and per page
\* whether the text layer can be read, whether a 2d canvas context is
\* available and whether rendering succeeds.
PageKinds ==
  { [text |-> Some("Wang 90"), context |-> TRUE,  render |-> TRUE],
    [text |-> None,           context |-> TRUE,  render |-> TRUE],
    [text |-> Some("Wang 90"), context |-> FALSE, render |-> TRUE],
    [text |-> Some("Wang 90"), context |-> TRUE,  render |-> FALSE] }

PdfDocs ==
  { [opens |-> FALSE, pages |-> <<>>] } \cup
  { [opens |-> TRUE, pages |-> ps] :
      ps \in UNION { [1..k -> PageKinds] : k \in 0..MaxPages } }

MsgInvalidPdf == "Invalid PDF structure."
MsgRenderFailed == "Rendering cancelled"

\* The page loop pushing each page in front of the earlier ones.
RECURSIVE PdfPageLoop_Reversed(_, _, _)
PdfPageLoop_Reversed(doc, pageNum, images) ==
  IF pageNum > Len(doc.pages) THEN Ok(images)
  ELSE
    LET page == doc.pages[pageNum]
        pageText == IF IsSome(page.text) THEN Get(page.text) ELSE ""
    IN IF ~page.context THEN PdfPageLoop_Reversed(doc, pageNum + 1, images)
       ELSE IF ~page.render THEN Thrown(Some(MsgRenderFailed))
       ELSE PdfPageLoop_Reversed(doc, pageNum + 1,
              << [base64 |-> "jpeg-" \o ToString(pageNum),
                  textContent |-> pageText,
                  pageNumber |-> pageNum] >> \o images)

\* The page loop letting the failure of getTextContent escape.
RECURSIVE PdfPageLoop_TextThrows(_, _, _)
PdfPageLoop_TextThrows(doc, pageNum, images) ==
  IF pageNum > Len(doc.pages) THEN Ok(images)
  ELSE
    LET page == doc.pages[pageNum]
    IN IF ~IsSome(page.text) THEN Thrown(Some("Text layer unavailable"))
       ELSE IF ~page.context
         THEN PdfPageLoop_TextThrows(doc, pageNum + 1, images)
       ELSE IF ~page.render THEN Thrown(Some(MsgRenderFailed))
       ELSE PdfPageLoop_TextThrows(doc, pageNum + 1,
              Append(images, [base64 |-> "jpeg-" \o ToString(pageNum),
                              textContent |-> Get(page.text),
                              pageNumber |-> pageNum]))

\* The page loop of convertPdfToImages from page pageNum on; images is the
\* array built so far.
RECURSIVE PdfPageLoop(_, _, _)
PdfPageLoop(doc, pageNum, images) ==
  IF pageNum > Len(doc.pages) THEN Ok(images)
  ELSE
    LET page == doc.pages[pageNum]
        pageText == IF IsSome(page.text) THEN Get(page.text) ELSE ""
    IN IF ~page.context THEN PdfPageLoop(doc, pageNum + 1, images)
       ELSE IF ~page.render THEN Thrown(Some(MsgRenderFailed))
       ELSE PdfPageLoop(doc, pageNum + 1,
              Append(images, [base64 |-> "jpeg-" \o ToString(pageNum),
                              textContent |-> pageText,
                              pageNumber |-> pageNum]))

\* pdfUtils.convertPdfToImages
convertPdfToImages(doc) ==
  IF ~doc.opens THEN Thrown(Some(MsgInvalidPdf))
  ELSE PdfPageLoop(doc, 1, <<>>)

\* ---------------------------------------------------------- Word documents
\* What the browser and mammoth find in a .docx file.
DocxDocs ==
  { [readable |-> FALSE, container |-> FALSE, text |-> ""],
    [readable |-> TRUE,  container |-> FALSE, text |-> ""],
    [readable |-> TRUE,  container |-> TRUE,  text |-> "Wang 90"],
    [readable |-> TRUE,  container |-> TRUE,  text |-> ""] }

MsgNotReadable == "The requested file could not be read"

\* The loader without its try/catch: the error of mammoth reaches the caller.
extractTextFromDocx_NoCatch(doc) ==
  IF ~doc.readable THEN Thrown(Some(MsgNotReadable))
  ELSE IF ~doc.container THEN Thrown(Some("Can't find end of central directory"))
  ELSE Ok(doc.text)

\* docxUtils.extractTextFromDocx
extractTextFromDocx(doc) ==
  IF ~doc.readable THEN Thrown(Some(MsgNotReadable))
  ELSE IF ~doc.container THEN Thrown(Some(MsgDocxUnreadable))
  ELSE Ok(doc.text)

\* ------------------------------------------------------- service responses
\* The raw items the service can put in its JSON array.  A schema field the
\* service left out is absent from the record.  code is the item's JSON text.
ItemTable ==
  << [code |-> "{A}", obj |-> [unitTitle |-> "HR Chief", name |-> "Wang",
                               supervisorRating |-> "90"]],
     [code |-> "{B}", obj |-> [unitTitle |-> "HR, Clerk", name |-> " Wang "]],
     [code |-> "{C}", obj |-> [name |-> "", supervisorRating |-> "85\n86"]],
     [code |-> "{D}", obj |-> [unitTitle |-> "Works, \"B\" Section",
                               name |-> "constructor",
                               supervisorRating |-> "80"]] >>

Items == 1..Len(ItemTable)

\* The arrays of at most n raw items, as sequences of ItemTable indexes.
ArraysUpTo(n) == UNION { [1..k -> Items] : k \in 0..n }

RECURSIVE JoinCodes(_)
JoinCodes(arr) ==
  IF arr = <<>> THEN ""
  ELSE IF Len(arr) = 1 THEN ItemTable[arr[1]].code
  ELSE ItemTable[arr[1]].code \o "," \o JoinCodes(Tail(arr))

\* The JSON text of an array of raw items.
JsonText(arr) == "[" \o JoinCodes(arr) \o "]"

MsgJsonSyntax == "Unexpected end of JSON input"
MsgJsonToken == "Unexpected token # in JSON at position "
MsgNullMap == "Cannot read properties of null (reading 'map')"
MsgNotArray == "parsedData.map is not a function"

\* The 0-based position of the first "#" of a text that has one.
BadTokenPosition(text) ==
  (CHOOSE k \in 1..Len(text) :
     /\ SubSeq(text, k, k) = "#"
     /\ \A j \in 1..(k - 1) : SubSeq(text, j, j) # "#") - 1

\* JSON.parse on the texts the service can return: surrounding whitespace is
\* ignored; the text of an array gives the array, "null" gives null, "{}" an
\* object; a character that is not allowed is a SyntaxError naming its
\* position, and a text that ends too early a SyntaxError saying so.
JsonParse(text) ==
  LET t == Trim(text)
      isArr(arr) == JsonText(arr) = t
  IN IF t = "null" THEN Ok([kind |-> "null", items |-> <<>>])
     ELSE IF t = "{}" THEN Ok([kind |-> "object", items |-> <<>>])
     ELSE IF \E arr \in ArraysUpTo(MaxRecords) : isArr(arr)
       THEN Ok([kind |-> "array",
                items |-> CHOOSE arr \in ArraysUpTo(MaxRecords) : isArr(arr)])
     ELSE IF Includes(text, "#")
       THEN Thrown(Some(MsgJsonToken \o ToString(BadTokenPosition(text))))
     ELSE Thrown(Some(MsgJsonSyntax))

\* item.field || ""
FieldOrEmpty(obj, field) ==
  IF field \in DOMAIN obj /\ obj[field] # "" THEN obj[field] ELSE ""

\* The template literal `${fileName}-${pageNumber}-${index}-${Date.now()}`.
RecordId(fileName, pageNumber, index, now) ==
  fileName \o "-" \o ToString(pageNumber) \o "-" \o ToString(index)
           \o "-" \o ToString(now)

\* The mapping copying each raw item as it came ({ ...item, id, fileName,
\* pageNumber }), without the defaults.
MapItems_Spread(arr, fileName, pageNumber, now) ==
  [ k \in 1..Len(arr) |->
      [id |-> RecordId(fileName, pageNumber, k - 1, now),
       fileName |-> fileName,
       pageNumber |-> pageNumber] @@ ItemTable[arr[k]].obj ]

\* parsedData.map((item, index) => ({...})) of extractDataFromDocument.
MapItems(arr, fileName, pageNumber, now) ==
  [ k \in 1..Len(arr) |->
      LET obj == ItemTable[arr[k]].obj
      IN [id |-> RecordId(fileName, pageNumber, k - 1, now),
          fileName |-> fileName,
          pageNumber |-> pageNumber,
          unitTitle |-> FieldOrEmpty(obj, "unitTitle"),
          name |-> FieldOrEmpty(obj, "name"),
          supervisorRating |-> FieldOrEmpty(obj, "supervisorRating")] ]

\* The error the client library throws for an HTTP error response: status is
\* the HTTP status code, the message is made from the response body.
ApiError(status, message) ==
  [ok |-> FALSE, message |-> Some(message), status |-> status]

\* What generateContent can do: throw an error (an HTTP error, a network
\* failure, an Error without a message) or return a response whose text is
\* undefined or a string.  The body of an HTTP error names whatever the
\* service puts there, a project number for one.
UpstreamErrors ==
  { ApiError(429, "[429] Resource has been exhausted"),
    ApiError(401, "[401] API key not valid (API_KEY_INVALID)"),
    ApiError(403, "[403] The caller does not have permission"),
    ApiError(403, "[403] Permission denied on project 1042950"),
    ApiError(500, "[500] Internal error encountered"),
    Thrown(Some("Failed to fetch")),
    Thrown(None) }

\* A response text that is not JSON: BadTokenAt characters of well-formed
\* text (whitespace stands for them) and then a character that is not
\* allowed where it stands ("#" stands for it).
BadTokenAt == 500

RECURSIVE Pad(_)
Pad(n) ==
  IF n = 0 THEN ""
  ELSE IF n % 2 = 1 THEN " " \o Pad(n - 1)
  ELSE LET half == Pad(n \div 2) IN half \o half

BadJsonText == "[" \o Pad(BadTokenAt - 1) \o "#"

UpstreamTexts(n) ==
  { None, Some(""), Some("  "), Some(BadJsonText) }
  \cup { Some(JsonText(arr)) : arr \in ArraysUpTo(n) }

\* The responses that add at most n records.
Upstream(n) == UpstreamErrors \cup { Ok(t) : t \in UpstreamTexts(n) }

\* geminiService.getAIClient
getAIClient(apiKey) ==
  IF ~IsSome(apiKey) \/ Get(apiKey) = ""
    THEN Thrown(Some(MsgNoApiKey))
    ELSE Ok(apiKey)

\* The parts of the request built by extractDataFromDocument: the image part
\* when base64Image is truthy, and the text part with its prompt.
RequestParts(opts) ==
  LET hasImage == IsSome(opts.base64Image) /\ Get(opts.base64Image) # ""
      hasText == IsSome(opts.textContent) /\ Get(opts.textContent) # ""
  IN [image |-> IF hasImage THEN opts.base64Image ELSE None,
      prompt |-> IF ~hasText THEN "PROMPT"
                 ELSE IF hasImage THEN "PDF-TEXT+PROMPT"
                 ELSE "WORD-TEXT+PROMPT",
      text |-> IF hasText THEN opts.textContent ELSE None]

\* The try block of extractDataFromDocument after generateContent returned
\* upstream (lines 213-225).
ParseResponse(opts, upstream, now) ==
  IF ~upstream.ok THEN upstream
  ELSE
    LET textResponse == upstream.value
    IN IF ~IsSome(textResponse) \/ Get(textResponse) = "" THEN Ok(<<>>)
       ELSE
         LET parsedData == JsonParse(Get(textResponse))
         IN IF ~parsedData.ok THEN parsedData
            ELSE IF parsedData.value.kind = "null"
              THEN Thrown(Some(MsgNullMap))
            ELSE IF parsedData.value.kind = "object"
              THEN Thrown(Some(MsgNotArray))
            ELSE Ok(MapItems(parsedData.value.items, opts.fileName,
                             opts.pageNumber, now))

\* The catch block of extractDataFromDocument (lines 226-244): the message
\* of the Error it rethrows.
ClassifyError(message) ==
  LET has(t) == IsSome(message) /\ Includes(Get(message), t)
  IN IF has("429") THEN MsgRateLimit
     ELSE IF has("401") \/ has("API_KEY_INVALID") THEN MsgKeyInvalid
     ELSE IF has("403") THEN MsgForbidden
     ELSE IF has("500") THEN MsgServerBusy
     ELSE IF IsSome(message) /\ Get(message) # "" THEN Get(message)
     ELSE MsgExtractFailed

\* geminiService.extractDataFromDocument: the records it resolves to, or the
\* Error it rejects with, given what the service does and the clock.
extractDataFromDocument(opts, apiKey, upstream, now) ==
  LET ai == getAIClient(apiKey)
      result == IF ~ai.ok THEN ai ELSE ParseResponse(opts, upstream, now)
  IN IF result.ok THEN result
     ELSE Thrown(Some(ClassifyError(result.message)))

\* ----------------------------------------------------------------- export
\* "\uFEFF", the byte-order mark, and the header fields of the CSV.
Bom == "<U+FEFF>"
CsvHeader == <<"Unit/Title", "Name", "Supervisor rating", "Source file">>

\* Array.prototype.join
RECURSIVE Join(_, _)
Join(strs, sep) ==
  IF strs = <<>> THEN ""
  ELSE IF Len(strs) = 1 THEN strs[1]
  ELSE strs[1] \o sep \o Join(Tail(strs), sep)

\* `"${field}"`
Quoted(field) == "\"" \o field \o "\""

\* A row of the four fields as they are, without the quotes.
CsvRow_Unquoted(r) ==
  << r.unitTitle, r.name, r.supervisorRating, r.fileName >>

\* A row of handleExportCsv: the four fields of a record, each in quotes.
CsvRow(r) ==
  << Quoted(r.unitTitle), Quoted(r.name), Quoted(r.supervisorRating),
     Quoted(r.fileName) >>

\* csvContent of handleExportCsv (lines 386-388).
CsvContent(recs) ==
  Bom \o Join(<<Join(CsvHeader, ",")>>
                \o [k \in 1..Len(recs) |-> Join(CsvRow(recs[k]), ",")],
              "\n")

\* ------------------------------------------------------------------ state
VARIABLES
  apiKey,          \* process.env.API_KEY
  appState,        \* useState: AppState
  records,         \* useState: ExtractedRecord[]
  status,          \* useState: ProcessingStatus | null
  errorMsg,        \* useState: string | null
  pendingFiles,    \* useState: File[]
  duplicateNames,  \* useState: string[]
  pc,              \* where handleStartProcessing is suspended: idle, load, extract
  i,               \* its loop variable i
  pages,           \* its pages array
  p,               \* position of the current page in pages (1-based)
  allRecords,      \* its allRecords array
  activeRuns,      \* invocations of handleStartProcessing that have not returned
  inflight,        \* the calls awaited and not yet settled (indexes into calls)
  calls,           \* history: loader and extraction calls made by the current run
  failure,         \* history: the first call of the run that threw, and its Error
  batches,         \* history: the record batches the extractions of the run returned
  statusLog,       \* history: the setStatus calls of the current run
  lastRequest,     \* history: the request of the last extraction call, if sent
  lastUpstream,    \* history: what the service did on the last settled extraction
  lastDoc,         \* history: what the loader found in the file it loaded last,
                   \* kept until the next extraction settles
  download         \* the content of the file the browser was last given to save

vars == << apiKey, appState, records, status, errorMsg, pendingFiles,
           duplicateNames, pc, i, pages, p, allRecords, activeRuns, inflight,
           calls, failure, batches, statusLog, lastRequest, lastUpstream,
           lastDoc, download >>

\* The part of the state a continuation of handleStartProcessing writes.
Store ==
  [ appState |-> appState, records |-> records, status |-> status,
    errorMsg |-> errorMsg, duplicateNames |-> duplicateNames, pc |-> pc,
    i |-> i, pages |-> pages, p |-> p, allRecords |-> allRecords,
    activeRuns |-> activeRuns,
    inflight |-> inflight, calls |-> calls, failure |-> failure,
    batches |-> batches, statusLog |-> statusLog,
    lastRequest |-> lastRequest ]

Commit(s) ==
  /\ appState' = s.appState
  /\ records' = s.records
  /\ status' = s.status
  /\ errorMsg' = s.errorMsg
  /\ duplicateNames' = s.duplicateNames
  /\ pc' = s.pc
  /\ i' = s.i
  /\ pages' = s.pages
  /\ p' = s.p
  /\ allRecords' = s.allRecords
  /\ activeRuns' = s.activeRuns
  /\ inflight' = s.inflight
  /\ calls' = s.calls
  /\ failure' = s.failure
  /\ batches' = s.batches
  /\ statusLog' = s.statusLog
  /\ lastRequest' = s.lastRequest

\* The status counting the files from one.
SetStatus_OneBased(s, kind, current, filename) ==
  LET update == [total |-> Len(pendingFiles), current |-> current + 1,
                 filename |-> filename]
  IN [s EXCEPT !.status = Some(update),
               !.statusLog = Append(@, [kind |-> kind, update |-> update])]

\* setStatus({ total: pendingFiles.length, current, filename }); kind tells
\* which setStatus call of the handler it is.
SetStatus(s, kind, current, filename) ==
  LET update == [total |-> Len(pendingFiles), current |-> current,
                 filename |-> filename]
  IN [s EXCEPT !.status = Some(update),
               !.statusLog = Append(@, [kind |-> kind, update |-> update])]

\* Calling an async function and awaiting it: the call is logged and becomes
\* outstanding, the handler is suspended at where.
Await(s, where, call) ==
  [s EXCEPT !.pc = where,
            !.calls = Append(@, call),
            !.inflight = @ \cup {Len(s.calls) + 1}]

\* await convertPdfToImages(file) / await extractTextFromDocx(file)
AwaitLoad(s, fileIndex) ==
  Await([s EXCEPT !.i = fileIndex], "load",
        [op |-> "load", file |-> fileIndex, page |-> 0])

\* await extractDataFromDocument(opts): the request goes out when the client
\* can be built.
AwaitExtract(s, opts) ==
  [ Await(s, "extract",
          [op |-> "extract", file |-> s.i, page |-> opts.pageNumber])
    EXCEPT !.lastRequest = IF getAIClient(apiKey).ok
                             THEN Some(RequestParts(opts)) ELSE None ]

\* nameCounts of handleStartProcessing (lines 363-367) as the sequence of its
\* keys in insertion order and the count of a key.
RECURSIVE NameKeys(_)
NameKeys(recs) ==
  IF recs = <<>> THEN <<>>
  ELSE LET front == NameKeys(SubSeq(recs, 1, Len(recs) - 1))
           n == Trim(recs[Len(recs)].name)
       IN IF n = "" \/ \E k \in 1..Len(front) : front[k] = n
            THEN front ELSE Append(front, n)

NameCount(recs, n) ==
  Cardinality({ k \in 1..Len(recs) : Trim(recs[k].name) = n })

\* nameCounts is a plain object ({}): for a name that is a property of
\* Object.prototype, nameCounts[n] reads the inherited function or object,
\* (nameCounts[n] || 0) + 1 is then a string, and the string > 1 is false.
InheritedKeys ==
  { "constructor", "toString", "toLocaleString", "valueOf", "hasOwnProperty",
    "isPrototypeOf", "propertyIsEnumerable", "__proto__" }

\* nameCounts[n] > 1
IsDuplicate(recs, n) == n \notin InheritedKeys /\ NameCount(recs, n) > 1

\* Object.keys(nameCounts).filter(n => nameCounts[n] > 1)
DuplicateNames(recs) ==
  LET keys == NameKeys(recs)
      F[k \in 0..Len(keys)] ==
        IF k = 0 THEN <<>>
        ELSE IF IsDuplicate(recs, keys[k]) THEN Append(F[k - 1], keys[k])
        ELSE F[k - 1]
  IN F[Len(keys)]

\* Completion that leaves the run state as it is.
Complete_NoTerminal(s) ==
  [s EXCEPT !.duplicateNames = DuplicateNames(s.allRecords),
            !.pc = "idle", !.i = 0, !.pages = <<>>, !.p = 0,
            !.allRecords = <<>>, !.activeRuns = @ - 1]

\* Lines 363-369: after the file loop.
Complete(s) ==
  [s EXCEPT !.duplicateNames = DuplicateNames(s.allRecords),
            !.appState = "COMPLETED",
            !.pc = "idle", !.i = 0, !.pages = <<>>, !.p = 0,
            !.allRecords = <<>>, !.activeRuns = @ - 1]

\* The file loop of handleStartProcessing (lines 338-361) from index
\* fileIndex up to its next await, or through to its end.
RECURSIVE FileLoop(_, _)
FileLoop(s, fileIndex) ==
  IF fileIndex >= Len(pendingFiles) THEN Complete(s)
  ELSE
    LET file == pendingFiles[fileIndex + 1]
        s1 == SetStatus(s, "started", fileIndex, file.name)
    IN IF IsPdfFile(file) \/ IsDocxFile(file)
         THEN AwaitLoad(s1, fileIndex)
         ELSE FileLoop(SetStatus([s1 EXCEPT !.i = fileIndex], "finished",
                                 fileIndex + 1, file.name),
                       fileIndex + 1)

\* The next iteration without the status update of line 360.
FinishFile_NoStatus(s) ==
  FileLoop([s EXCEPT !.pages = <<>>, !.p = 0], s.i + 1)

\* Line 360 and the next iteration of the file loop.
FinishFile(s) ==
  FileLoop(SetStatus([s EXCEPT !.pages = <<>>, !.p = 0], "finished",
                     s.i + 1, pendingFiles[s.i + 1].name),
           s.i + 1)

\* The page loop (lines 344-353) from position pos of pages.
PageLoop(s, pos) ==
  IF pos > Len(s.pages) THEN FinishFile(s)
  ELSE
    LET page == s.pages[pos]
    IN AwaitExtract([s EXCEPT !.p = pos],
                    [base64Image |-> Some(page.base64),
                     textContent |-> Some(page.textContent),
                     fileName |-> pendingFiles[s.i + 1].name,
                     pageNumber |-> page.pageNumber])

\* Records kept in the local array only, not shown until the run ends.
AppendRecords_Buffered(s, res) ==
  [s EXCEPT !.allRecords = @ \o res]

\* allRecords.push(...res); setRecords(prev => [...prev, ...res])
AppendRecords(s, res) ==
  [s EXCEPT !.allRecords = @ \o res,
            !.records = @ \o res]

\* The catch block of handleStartProcessing (lines 370-374).
Catch(s, err) ==
  [s EXCEPT !.appState = "ERROR",
            !.errorMsg = IF IsSome(err.message) /\ Get(err.message) # ""
                           THEN err.message ELSE Some(MsgUnknownApp),
            !.pc = "idle", !.i = 0, !.pages = <<>>, !.p = 0,
            !.allRecords = <<>>, !.activeRuns = @ - 1]

\* A settled call is no longer outstanding; the records an extraction
\* returned are remembered, and the first call that threw with its Error.
Settle(s, c, result) ==
  [s EXCEPT !.inflight = @ \ {c},
            !.batches = IF s.calls[c].op = "extract" /\ result.ok
                          THEN Append(@, result.value) ELSE @,
            !.failure = IF ~result.ok /\ @ = None
                          THEN Some([call |-> c, message |-> result.message])
                          ELSE @]

\* Lines 343-344: the continuation after await convertPdfToImages(file).
AfterPdfLoad(s, result) ==
  IF result.ok THEN PageLoop([s EXCEPT !.pages = result.value], 1)
  ELSE Catch(s, result)

\* Lines 355-356: the continuation after await extractTextFromDocx(file).
AfterDocxLoad(s, result) ==
  IF result.ok
    THEN AwaitExtract(s, [base64Image |-> None,
                          textContent |-> Some(result.value),
                          fileName |-> pendingFiles[s.i + 1].name,
                          pageNumber |-> 1])
    ELSE Catch(s, result)

\* A failed extraction degraded to an empty result, the run going on.
AfterExtract_Degrade(s, result) ==
  IF IsPdfFile(pendingFiles[s.i + 1])
    THEN PageLoop(AppendRecords(s, IF result.ok THEN result.value ELSE <<>>),
                  s.p + 1)
    ELSE FinishFile(AppendRecords(s, IF result.ok THEN result.value ELSE <<>>))

\* A failed extraction sent once more before the run gives up.
AfterExtract_Retry(s, result) ==
  LET last == s.calls[Len(s.calls)]
      sent == { c \in 1..Len(s.calls) : s.calls[c] = last }
  IN IF ~result.ok /\ Cardinality(sent) < 2
       THEN Await(s, "extract", last)
     ELSE IF ~result.ok THEN Catch(s, result)
     ELSE IF IsPdfFile(pendingFiles[s.i + 1])
       THEN PageLoop(AppendRecords(s, result.value), s.p + 1)
     ELSE FinishFile(AppendRecords(s, result.value))

\* Lines 351-353 and 357-360: the continuation after
\* await extractDataFromDocument(...).
AfterExtract(s, result) ==
  IF ~result.ok THEN Catch(s, result)
  ELSE IF IsPdfFile(pendingFiles[s.i + 1])
    THEN PageLoop(AppendRecords(s, result.value), s.p + 1)
    ELSE FinishFile(AppendRecords(s, result.value))

\* ---------------------------------------------------------------- actions
\* The values Date.now() can return.  The wall clock may stand still between
\* two reads and may be set back, so every read draws from the whole range.
Clock == 0..MaxNow

Init ==
  /\ apiKey \in ApiKeys
  /\ appState = "IDLE"
  /\ records = <<>>
  /\ status = None
  /\ errorMsg = None
  /\ pendingFiles = <<>>
  /\ duplicateNames = <<>>
  /\ pc = "idle"
  /\ i = 0
  /\ pages = <<>>
  /\ p = 0
  /\ allRecords = <<>>
  /\ activeRuns = 0
  /\ inflight = {}
  /\ calls = <<>>
  /\ failure = None
  /\ batches = <<>>
  /\ statusLog = <<>>
  /\ lastRequest = None
  /\ lastUpstream = None
  /\ lastDoc = None
  /\ download = None

\* What the render function offers in the current state (lines 427-528).
DropZoneShown == appState \in {"IDLE", "ERROR"}
StartShown_Always == Len(pendingFiles) > 0
StartShown ==
  appState \in {"IDLE", "ERROR"} /\ Len(pendingFiles) > 0 /\ appState # "ERROR"
ResetShown == appState \in {"ERROR", "COMPLETED"}
ResultsShown == appState = "COMPLETED"
ExportShown == appState = "COMPLETED"
ProgressShown == appState = "PROCESSING" /\ IsSome(status)

Selections == UNION { [1..k -> FileUniverse] : k \in 1..MaxFiles }

\* The user drops or picks files: DropZone.handleDrop / handleFileInput and
\* App.handleFilesSelected (lines 315-320).
HandleFilesSelected ==
  /\ DropZoneShown
  /\ \E selection \in Selections :
       LET validFiles == FilterValid(selection)
       IN /\ Len(validFiles) > 0
          /\ pendingFiles' = validFiles
  /\ records' = <<>>
  /\ errorMsg' = None
  /\ appState' = "IDLE"
  /\ batches' = <<>>
  /\ calls' = <<>>
  /\ failure' = None
  /\ statusLog' = <<>>
  /\ lastRequest' = None
  /\ lastUpstream' = None
  /\ lastDoc' = None
  /\ download' = None
  /\ UNCHANGED << apiKey, status, duplicateNames, pc, i, pages, p,
                  allRecords, activeRuns, inflight >>

\* handleStartProcessing with a missing credential (lines 323-329).
StartWithoutKey ==
  /\ StartShown
  /\ Len(pendingFiles) # 0
  /\ apiKeyStatus(apiKey) # "configured"
  /\ appState' = "ERROR"
  /\ errorMsg' = Some(MsgKeyNotSet)
  /\ batches' = batches
  /\ calls' = <<>>
  /\ failure' = None
  /\ statusLog' = <<>>
  /\ lastRequest' = None
  /\ lastUpstream' = None
  /\ lastDoc' = None
  /\ download' = None
  /\ UNCHANGED << apiKey, records, status, pendingFiles, duplicateNames,
                  pc, i, pages, p, allRecords, activeRuns, inflight >>

\* handleStartProcessing up to its first await (lines 323-343 / 355).
StartRun ==
  /\ StartShown
  /\ Len(pendingFiles) # 0
  /\ apiKeyStatus(apiKey) = "configured"
  /\ LET s0 == [Store EXCEPT !.appState = "PROCESSING",
                             !.records = <<>>,
                             !.errorMsg = None,
                             !.allRecords = <<>>,
                             !.activeRuns = @ + 1,
                             !.calls = <<>>,
                             !.failure = None,
                             !.batches = <<>>,
                             !.statusLog = <<>>,
                             !.lastRequest = None]
         s1 == SetStatus(s0, "preparing", 0, MsgPreparing)
     IN Commit(FileLoop(s1, 0))
  /\ lastUpstream' = None
  /\ lastDoc' = None
  /\ download' = None
  /\ UNCHANGED << apiKey, pendingFiles >>

\* convertPdfToImages settles and the handler runs to its next await; docs
\* are the documents the file may turn out to hold.
PdfLoadedFrom(docs) ==
  /\ pc = "load"
  /\ \E c \in inflight :
       /\ calls[c].op = "load"
       /\ IsPdfFile(pendingFiles[calls[c].file + 1])
       /\ \E doc \in docs :
            LET result == convertPdfToImages(doc)
            IN /\ Commit(AfterPdfLoad(Settle(Store, c, result), result))
               /\ lastDoc' = Some([file |-> calls[c].file, doc |-> doc])
  /\ UNCHANGED << apiKey, pendingFiles, lastUpstream, download >>

PdfLoaded == PdfLoadedFrom(PdfDocs)

\* extractTextFromDocx settles and the handler runs to its next await.
DocxLoadedFrom(docs) ==
  /\ pc = "load"
  /\ \E c \in inflight :
       /\ calls[c].op = "load"
       /\ IsDocxFile(pendingFiles[calls[c].file + 1])
       /\ \E doc \in docs :
            LET result == extractTextFromDocx(doc)
            IN /\ Commit(AfterDocxLoad(Settle(Store, c, result), result))
               /\ lastDoc' = Some([file |-> calls[c].file, doc |-> doc])
  /\ UNCHANGED << apiKey, pendingFiles, lastUpstream, download >>

DocxLoaded == DocxLoadedFrom(DocxDocs)

\* extractDataFromDocument settles and the handler runs to its next await;
\* responses are what the service may do and clock what Date.now() may return.
ExtractReturnsFrom(responses, clock) ==
  /\ pc = "extract"
  /\ \E c \in inflight :
       /\ calls[c].op = "extract"
       /\ \E upstream \in responses, t \in clock :
            LET opts == [fileName |-> pendingFiles[calls[c].file + 1].name,
                         pageNumber |-> calls[c].page]
                result == extractDataFromDocument(opts, apiKey, upstream, t)
            IN /\ Commit(AfterExtract(Settle(Store, c, result), result))
               /\ lastUpstream' = Some(upstream)
  /\ lastDoc' = None
  /\ UNCHANGED << apiKey, pendingFiles, download >>

ExtractReturns ==
  ExtractReturnsFrom(Upstream(MaxRecords - Len(records)), Clock)

\* The user saves the results as CSV: handleExportCsv (lines 385-395).
HandleExportCsv ==
  /\ ExportShown
  /\ download' = Some(CsvContent(records))
  /\ UNCHANGED << apiKey, appState, records, status, errorMsg, pendingFiles,
                  duplicateNames, pc, i, pages, p, allRecords, activeRuns,
                  inflight, calls, failure, batches, statusLog, lastRequest,
                  lastUpstream, lastDoc >>

\* A reset that leaves the aggregate as it is.
HandleReset_KeepRecords ==
  /\ ResetShown
  /\ appState' = "IDLE"
  /\ pendingFiles' = <<>>
  /\ errorMsg' = None
  /\ status' = None
  /\ calls' = <<>>
  /\ failure' = None
  /\ statusLog' = <<>>
  /\ lastRequest' = None
  /\ lastUpstream' = None
  /\ lastDoc' = None
  /\ download' = None
  /\ UNCHANGED << apiKey, records, batches, duplicateNames, pc, i, pages, p,
                  allRecords, activeRuns, inflight >>

\* handleReset (lines 377-383).
HandleReset ==
  /\ ResetShown
  /\ appState' = "IDLE"
  /\ records' = <<>>
  /\ pendingFiles' = <<>>
  /\ errorMsg' = None
  /\ status' = None
  /\ batches' = <<>>
  /\ calls' = <<>>
  /\ failure' = None
  /\ statusLog' = <<>>
  /\ lastRequest' = None
  /\ lastUpstream' = None
  /\ lastDoc' = None
  /\ download' = None
  /\ UNCHANGED << apiKey, duplicateNames, pc, i, pages, p, allRecords,
                  activeRuns, inflight >>

Next ==
  \/ HandleFilesSelected
  \/ StartWithoutKey
  \/ StartRun
  \/ PdfLoaded
  \/ DocxLoaded
  \/ ExtractReturns
  \/ HandleExportCsv
  \/ HandleReset

Spec == Init /\ [][Next]_vars

\* The specification for termination.  Whether a run ends depends on the
\* path the handler takes, not on the data carried along it, so the inputs
\* are one per path: PDFs of every page count whose pages all render, whose
\* first page has no canvas context or whose last page fails to render, and
\* PDFs that do not open; every kind of Word document; a failing request, an
\* empty response, an unparsable one and a response of one record.
PathPdfDocs ==
  { doc \in PdfDocs :
      \A k \in 1..Len(doc.pages) :
        /\ IsSome(doc.pages[k].text)
        /\ ~doc.pages[k].context => k = 1
        /\ ~doc.pages[k].render => k = Len(doc.pages) }

PathUpstream(n) ==
  { Thrown(Some("Failed to fetch")), Ok(None), Ok(Some("  ")) }
  \cup { Ok(Some(JsonText(<<1>>))) : k \in 1..(IF n > 0 THEN 1 ELSE 0) }

PathPdfLoaded == PdfLoadedFrom(PathPdfDocs)
PathDocxLoaded == DocxLoadedFrom(DocxDocs)
PathExtractReturns ==
  ExtractReturnsFrom(PathUpstream(MaxRecords - Len(records)), {0})

PathNext ==
  \/ HandleFilesSelected
  \/ StartWithoutKey
  \/ StartRun
  \/ PathPdfLoaded
  \/ PathDocxLoaded
  \/ PathExtractReturns
  \/ HandleExportCsv
  \/ HandleReset

\* Every awaited loader call and service call eventually settles.
FairSpec ==
  /\ Init
  /\ [][PathNext]_vars
  /\ WF_vars(PathPdfLoaded)
  /\ WF_vars(PathDocxLoaded)
  /\ WF_vars(PathExtractReturns)

\* ------------------------------------------- the accumulating variant
\* The variant of App that adds each selection to the pending list (lines
\* 1-281 of App.tsx).  Its handleStartProcessing and handleReset have the
\* code of the variant above, so the continuations of a run and the reset are
\* the actions above; the variant has no duplicateNames, and nothing said
\* about it reads that variable.

\* The largest pending list followed (the code sets no limit).
MaxPending == 3

\* The File objects offered to the variant: files that differ in name, in
\* size, or in both.
AccFileUniverse ==
  { [name |-> "a.pdf",  type |-> MimePdf,  size |-> 12],
    [name |-> "a.pdf1", type |-> MimePdf,  size |-> 2],
    [name |-> "b.docx", type |-> MimeDocx, size |-> 1] }

AccSelections == UNION { [1..k -> AccFileUniverse] : k \in 1..MaxFiles }

\* f.name + f.size: the name followed by the decimal digits of the size.
NameAndSize(f) == f.name \o ToString(f.size)

\* The updater handleFilesSelected passes to setPendingFiles (lines 33-37).
MergePending(prev, newFiles) ==
  LET existingNames == [k \in 1..Len(prev) |-> NameAndSize(prev[k])]
      isNew(nf) ==
        \A k \in 1..Len(existingNames) : existingNames[k] # NameAndSize(nf)
  IN prev \o SelectSeq(newFiles, isNew)

\* prev.filter((_, i) => i !== index), index counted from 0
WithoutIndex(prev, index) ==
  SubSeq(prev, 1, index) \o SubSeq(prev, index + 2, Len(prev))

\* What the variant's render function offers (lines 152-273).
AccDropZoneShown == appState \in {"IDLE", "ERROR"}
AccPendingListShown ==
  appState \in {"IDLE", "ERROR"} /\ Len(pendingFiles) > 0

\* The user drops or picks files: DropZone.handleDrop / handleFileInput and
\* the variant's handleFilesSelected (lines 32-43).
AccHandleFilesSelected ==
  /\ AccDropZoneShown
  /\ \E selection \in AccSelections :
       LET validFiles == FilterValid(selection)
       IN /\ Len(validFiles) > 0
          /\ pendingFiles' = MergePending(pendingFiles, validFiles)
  /\ Len(pendingFiles') <= MaxPending
  /\ errorMsg' = None
  /\ appState' = IF appState \in {"ERROR", "COMPLETED"} THEN "IDLE"
                 ELSE appState
  /\ calls' = <<>>
  /\ failure' = None
  /\ statusLog' = <<>>
  /\ lastRequest' = None
  /\ lastUpstream' = None
  /\ lastDoc' = None
  /\ download' = None
  /\ UNCHANGED << apiKey, records, batches, status, duplicateNames, pc, i,
                  pages, p, allRecords, activeRuns, inflight >>

\* The user removes one file from the pending list: removeFile (lines 45-47).
AccRemoveFile ==
  /\ AccPendingListShown
  /\ \E index \in 0..(Len(pendingFiles) - 1) :
       pendingFiles' = WithoutIndex(pendingFiles, index)
  /\ UNCHANGED << apiKey, appState, records, status, errorMsg,
                  duplicateNames, pc, i, pages, p, allRecords, activeRuns,
                  inflight, calls, failure, batches, statusLog, lastRequest,
                  lastUpstream, lastDoc, download >>

\* The user clears the pending list: clearFiles (lines 49-52).
AccClearFiles ==
  /\ AccPendingListShown
  /\ pendingFiles' = <<>>
  /\ appState' = "IDLE"
  /\ UNCHANGED << apiKey, records, status, errorMsg, duplicateNames, pc, i,
                  pages, p, allRecords, activeRuns, inflight, calls, failure,
                  batches, statusLog, lastRequest, lastUpstream, lastDoc,
                  download >>

\* The variant's handleStartProcessing with a missing credential (lines
\* 55-61); the start button is part of the pending list.
AccStartWithoutKey ==
  /\ AccPendingListShown
  /\ Len(pendingFiles) # 0
  /\ apiKeyStatus(apiKey) # "configured"
  /\ appState' = "ERROR"
  /\ errorMsg' = Some(MsgKeyNotSet)
  /\ calls' = <<>>
  /\ failure' = None
  /\ statusLog' = <<>>
  /\ lastRequest' = None
  /\ lastUpstream' = None
  /\ lastDoc' = None
  /\ download' = None
  /\ UNCHANGED << apiKey, records, batches, status, pendingFiles,
                  duplicateNames, pc, i, pages, p, allRecords, activeRuns,
                  inflight >>

\* The variant's handleStartProcessing up to its first await (lines 55-75 /
\* 87).
AccStartRun ==
  /\ AccPendingListShown
  /\ Len(pendingFiles) # 0
  /\ apiKeyStatus(apiKey) = "configured"
  /\ LET s0 == [Store EXCEPT !.appState = "PROCESSING",
                             !.records = <<>>,
                             !.errorMsg = None,
                             !.allRecords = <<>>,
                             !.activeRuns = @ + 1,
                             !.calls = <<>>,
                             !.failure = None,
                             !.batches = <<>>,
                             !.statusLog = <<>>,
                             !.lastRequest = None]
         s1 == SetStatus(s0, "preparing", 0, MsgPreparing)
     IN Commit(FileLoop(s1, 0))
  /\ lastUpstream' = None
  /\ lastDoc' = None
  /\ download' = None
  /\ UNCHANGED << apiKey, pendingFiles >>

\* What the files and the service do in the runs of the variant: a PDF of
\* one page or one that does not open, every kind of Word document, a
\* failing request and a response of no record or of one.
AccPdfDocs == { doc \in PathPdfDocs : Len(doc.pages) <= 1 }

AccPdfLoaded == PdfLoadedFrom(AccPdfDocs)
AccDocxLoaded == DocxLoadedFrom(DocxDocs)
AccExtractReturns ==
  ExtractReturnsFrom(PathUpstream(MaxRecords - Len(records)), {0})

AccNext ==
  \/ AccHandleFilesSelected
  \/ AccRemoveFile
  \/ AccClearFiles
  \/ AccStartWithoutKey
  \/ AccStartRun
  \/ AccPdfLoaded
  \/ AccDocxLoaded
  \/ AccExtractReturns
  \/ HandleExportCsv
  \/ HandleReset

AccSpec == Init /\ [][AccNext]_vars

TypeOK ==
  /\ appState \in AppState
  /\ pc \in {"idle", "load", "extract"}
  /\ Len(pendingFiles) <= MaxFiles
  /\ Len(records) <= MaxRecords

\* ---------------------------------------------------------------- helpers
RECURSIVE Flatten(_)
Flatten(seqs) ==
  IF seqs = <<>> THEN <<>> ELSE Head(seqs) \o Flatten(Tail(seqs))

\* A run has ended and its outcome is still on display.
RunEnded == pc = "idle" /\ statusLog # <<>>

\* The message the catch block of handleStartProcessing shows for an Error.
ShownMessage(message) ==
  IF IsSome(message) /\ Get(message) # "" THEN message ELSE Some(MsgUnknownApp)

\* ------------------------------------------------------------------ claims

\* C1: once a loader call or an extraction call of the run has thrown, no
\* further call is made (the failed call stays the last of the run, nothing
\* is outstanding), and the run is in ERROR showing the message of that first
\* Error.
C1_AbortOnFirstError ==
  IsSome(failure) =>
    /\ Len(calls) = Get(failure).call
    /\ inflight = {}
    /\ pc = "idle"
    /\ appState = "ERROR"
    /\ errorMsg = ShownMessage(Get(failure).message)

\* C1 witness: a call for a file that is not the last of the batch has failed.
C1_Witness ==
  /\ IsSome(failure)
  /\ calls[Get(failure).call].file + 1 < Len(pendingFiles)
  /\ appState = "ERROR"

\* C2 (as claimed): after a failed run the aggregate is the concatenation of
\* the batches returned before the failure, and it is offered to the user for
\* inspection and export.
C2_PartialResultsAvailable ==
  (appState = "ERROR" /\ IsSome(failure) /\ records # <<>>) =>
    /\ records = Flatten(batches)
    /\ ResultsShown
    /\ ExportShown

\* C3: under fair settling of the awaited calls a started run ends, in
\* COMPLETED when no call threw and in ERROR otherwise, and in a terminal
\* state no continuation of the run is left to change anything.
C3_RunTerminates ==
  /\ (pc # "idle") ~> (pc = "idle" /\ appState \in {"COMPLETED", "ERROR"})
  /\ [](RunEnded =>
          /\ appState \in {"COMPLETED", "ERROR"}
          /\ (appState = "COMPLETED" <=> ~IsSome(failure)))
  /\ [](appState \in {"COMPLETED", "ERROR"} =>
          pc = "idle" /\ inflight = {} /\ activeRuns = 0)

\* C3 witness: a run over two files has ended in COMPLETED.
C3_Witness ==
  /\ RunEnded
  /\ appState = "COMPLETED"
  /\ Len(pendingFiles) = 2
  /\ Len(calls) >= 2

\* C4: at most one invocation of handleStartProcessing is active, it is
\* active exactly in PROCESSING, and one begins only from IDLE, COMPLETED or
\* ERROR.
C4_SingleRun ==
  /\ [](activeRuns <= 1 /\ (activeRuns = 1 <=> appState = "PROCESSING"))
  /\ [][activeRuns' > activeRuns =>
          appState \in {"IDLE", "COMPLETED", "ERROR"}]_vars

\* C4 witness: a run is active over a non-empty batch and no start is offered.
C4_Witness ==
  /\ appState = "PROCESSING"
  /\ activeRuns = 1
  /\ Len(pendingFiles) > 0
  /\ ~StartShown

\* The credential is absent, shorter than the minimum length or contains the
\* placeholder token.
KeyImplausible ==
  \/ ~IsSome(apiKey)
  \/ Len(Get(apiKey)) < MinKeyLength
  \/ Includes(Get(apiKey), "process.env")

\* C5: with an implausible credential no loader call and no extraction
\* request is ever made, and leaving IDLE by a start ends in ERROR with
\* API_KEY_NOT_SET.
C5_MissingCredential ==
  /\ [](KeyImplausible =>
          /\ calls = <<>>
          /\ lastRequest = None
          /\ activeRuns = 0
          /\ appState \in {"IDLE", "ERROR"}
          /\ (appState = "ERROR" => errorMsg = Some(MsgKeyNotSet)))
  /\ [][(KeyImplausible /\ appState = "IDLE" /\ appState' # "IDLE") =>
          /\ appState' = "ERROR"
          /\ errorMsg' = Some(MsgKeyNotSet)
          /\ calls' = <<>>]_vars

\* C5 witness: a start with a too short credential has failed.
C5_Witness ==
  /\ IsSome(apiKey)
  /\ Get(apiKey) # ""
  /\ Len(Get(apiKey)) < MinKeyLength
  /\ appState = "ERROR"
  /\ errorMsg = Some(MsgKeyNotSet)
  /\ Len(pendingFiles) > 0

\* The positions of the "file started" updates in the status log.
StartedAt == { k \in 1..Len(statusLog) : statusLog[k].kind = "started" }

\* C6: in a completed run over n files the "file started" updates are n, the
\* k-th has index k-1, each is directly followed by the "finished" update of
\* the same file with the next index, the last update has index n, and every
\* update has total n.
C6_StatusUpdates ==
  (RunEnded /\ appState = "COMPLETED") =>
    LET n == Len(pendingFiles)
    IN /\ Cardinality(StartedAt) = n
       /\ \A k \in StartedAt :
            /\ statusLog[k].update.current =
                 Cardinality({ j \in StartedAt : j < k })
            /\ statusLog[k].update.filename =
                 pendingFiles[statusLog[k].update.current + 1].name
            /\ k < Len(statusLog)
            /\ statusLog[k + 1].kind = "finished"
            /\ statusLog[k + 1].update.current = statusLog[k].update.current + 1
            /\ statusLog[k + 1].update.filename = statusLog[k].update.filename
       /\ statusLog[Len(statusLog)].update.current = n
       /\ \A k \in 1..Len(statusLog) : statusLog[k].update.total = n
       /\ status = Some(statusLog[Len(statusLog)].update)

\* C6 witness: a run over two files, one of them loaded, has completed.
C6_Witness ==
  /\ RunEnded
  /\ appState = "COMPLETED"
  /\ Len(pendingFiles) = 2
  /\ Len(calls) >= 1
  /\ Len(statusLog) = 5

\* The order of the calls of a run: by file, the load of a file before its
\* extractions, the extractions by page.
CallBefore(a, b) ==
  \/ a.file < b.file
  \/ a.file = b.file /\ a.op = "load" /\ b.op = "extract"
  \/ a.file = b.file /\ a.op = "extract" /\ b.op = "extract" /\ a.page < b.page

\* C7: the calls of a run are made in file order and, within a file, in
\* ascending 1-based page order after the file's load; only the last call
\* made can be outstanding, so a call is made only after the one before it
\* has settled.
C7_SequentialOrder ==
  /\ Cardinality(inflight) <= 1
  /\ inflight \subseteq {Len(calls)}
  /\ \A a, b \in 1..Len(calls) : a < b => CallBefore(calls[a], calls[b])
  /\ \A a \in 1..Len(calls) :
       /\ calls[a].file \in 0..(Len(pendingFiles) - 1)
       /\ calls[a].op = "extract" =>
            /\ calls[a].page >= 1
            /\ \E b \in 1..(a - 1) :
                 calls[b].op = "load" /\ calls[b].file = calls[a].file

\* C7 witness: two pages of one file and a second file have been processed.
C7_Witness ==
  /\ Len(calls) >= 4
  /\ \E a, b \in 1..Len(calls) :
       /\ calls[a].op = "extract" /\ calls[b].op = "extract"
       /\ calls[a].file = calls[b].file
       /\ calls[a].page < calls[b].page
  /\ calls[Len(calls)].file = 1

\* C8: at every moment the aggregate is the concatenation, in order, of the
\* batches returned by the extractions of the run so far.
C8_IncrementalAggregate == records = Flatten(batches)

\* C8 witness: in the middle of a run a non-empty batch is already in the
\* aggregate.
C8_Witness ==
  /\ appState = "PROCESSING"
  /\ Len(batches) >= 1
  /\ Len(records) >= 1

\* C9 (as claimed): no two records of the aggregate have the same id.
C9_UniqueIds ==
  \A a, b \in 1..Len(records) : a # b => records[a].id # records[b].id

\* The response text is empty, only whitespace, or an empty array.
EmptyLike(text) ==
  \/ ~IsSome(text)
  \/ Trim(Get(text)) = ""
  \/ Trim(Get(text)) = "[]"

\* C10 (as claimed): an extraction whose response is empty, whitespace or an
\* empty array returns zero records and does not fail the run.
C10_EmptyResponseNoRecords ==
  (IsSome(lastUpstream) /\ Get(lastUpstream).ok
     /\ EmptyLike(Get(lastUpstream).value)) =>
    /\ ~IsSome(failure)
    /\ appState # "ERROR"
    /\ Len(batches) >= 1
    /\ batches[Len(batches)] = <<>>

\* The three extracted fields of a record.
RecordFields == {"unitTitle", "name", "supervisorRating"}

\* The raw items of the response text the service returned last, when that
\* text is a JSON array.
LastRawItems ==
  IF IsSome(lastUpstream) /\ Get(lastUpstream).ok
       /\ IsSome(Get(lastUpstream).value)
       /\ Get(Get(lastUpstream).value) # ""
       /\ JsonParse(Get(Get(lastUpstream).value)).ok
       /\ JsonParse(Get(Get(lastUpstream).value)).value.kind = "array"
    THEN Some(JsonParse(Get(Get(lastUpstream).value)).value.items)
    ELSE None

UpstreamKind(err) ==
  IF "status" \in DOMAIN err /\ err.status = 429 THEN "RateLimited"
  ELSE IF "status" \in DOMAIN err /\ err.status = 401
    THEN "AuthenticationInvalid"
  ELSE IF IsSome(err.message) /\ Includes(Get(err.message), "API_KEY_INVALID")
    THEN "AuthenticationInvalid"
  ELSE IF "status" \in DOMAIN err /\ err.status = 403
    THEN "AuthorizationDenied"
  ELSE IF "status" \in DOMAIN err /\ err.status = 500
    THEN "ServiceUnavailable"
  ELSE "Unknown"

\* The class the caller reads from the message of the Error it catches.
SurfacedKind(message) ==
  IF message = MsgRateLimit THEN "RateLimited"
  ELSE IF message = MsgKeyInvalid THEN "AuthenticationInvalid"
  ELSE IF message = MsgForbidden THEN "AuthorizationDenied"
  ELSE IF message = MsgServerBusy THEN "ServiceUnavailable"
  ELSE IF message \in {MsgKeyNotSet, MsgNoApiKey} THEN "AuthenticationMissing"
  ELSE "Unknown"

\* The run has failed at an extraction request that the service (or the
\* network) failed.
RequestFailed ==
  /\ appState = "ERROR"
  /\ IsSome(failure)
  /\ calls[Get(failure).call].op = "extract"
  /\ IsSome(lastUpstream)
  /\ ~Get(lastUpstream).ok

\* C12 (as claimed): a failed extraction request is surfaced as the error
\* class of the kind of the upstream failure (429 RateLimited, 401 or
\* API_KEY_INVALID AuthenticationInvalid, 403 AuthorizationDenied, 500
\* ServiceUnavailable, anything else Unknown), and the texts of the classes
\* differ from each other.
C12_ErrorClassByKind ==
  /\ Cardinality({MsgRateLimit, MsgKeyInvalid, MsgForbidden, MsgServerBusy,
                   MsgKeyNotSet, MsgNoApiKey, MsgExtractFailed}) = 7
  /\ RequestFailed =>
       /\ IsSome(errorMsg)
       /\ SurfacedKind(Get(errorMsg)) = UpstreamKind(Get(lastUpstream))

\* The extraction of the last response failed on the response text, not on
\* the request: the text could not be parsed into an array.
ParseFailed ==
  /\ appState = "ERROR"
  /\ IsSome(failure)
  /\ calls[Get(failure).call].op = "extract"
  /\ IsSome(lastUpstream)
  /\ Get(lastUpstream).ok
  /\ IsSome(Get(lastUpstream).value)

\* The message of the Error that JSON.parse or the map over its result
\* throws for a response text.
ParseErrorMessage(text) ==
  LET parsedData == JsonParse(text)
  IN IF ~parsedData.ok THEN parsedData.message
     ELSE IF parsedData.value.kind = "null" THEN Some(MsgNullMap)
     ELSE Some(MsgNotArray)

\* C13 (as claimed): a failure that is none of throttling, credential,
\* permission or server failure is shown with its original message: a loader
\* failure with the loader's message, a network failure with its message, a
\* response that cannot be parsed with the parser's message.
C13_UnknownShownVerbatim ==
  /\ (appState = "ERROR" /\ IsSome(failure)
        /\ calls[Get(failure).call].op = "load"
        /\ IsSome(Get(failure).message)) =>
       errorMsg = Get(failure).message
  /\ (RequestFailed /\ UpstreamKind(Get(lastUpstream)) = "Unknown"
        /\ IsSome(Get(lastUpstream).message)) =>
       errorMsg = Get(lastUpstream).message
  /\ ParseFailed =>
       errorMsg = ParseErrorMessage(Get(Get(lastUpstream).value))

\* C14 (as claimed): in COMPLETED every file of the batch was loaded, no call
\* of the run failed and none is outstanding.
C14_CompletedMeansAllProcessed ==
  (RunEnded /\ appState = "COMPLETED") =>
    /\ ~IsSome(failure)
    /\ inflight = {}
    /\ \A f \in 0..(Len(pendingFiles) - 1) :
         \E c \in 1..Len(calls) : calls[c].op = "load" /\ calls[c].file = f

\* A legacy binary Word file: name ending in .doc or MIME type
\* application/msword.
IsLegacyDoc(file) == EndsWith(file.name, ".doc") \/ file.type = MimeDoc

\* C15 (as claimed): a legacy Word file is never part of a batch whose run
\* has ended in COMPLETED with no message shown.
C15_LegacyDocRejected ==
  \A k \in 1..Len(pendingFiles) :
    IsLegacyDoc(pendingFiles[k]) =>
      ~(RunEnded /\ appState = "COMPLETED" /\ errorMsg = None)

\* The calls of the run of the given kind for the file with index f.
CallsFor(op, f) ==
  { c \in 1..Len(calls) : calls[c].op = op /\ calls[c].file = f }

\* The document last loaded is the given kind of file of the batch.
LastLoadedIs(IsKind(_)) ==
  /\ IsSome(lastDoc)
  /\ IsKind(pendingFiles[Get(lastDoc).file + 1])

\* The numbers of the pages of a PDF whose image can be rendered, ascending.
RECURSIVE RenderablePages(_, _)
RenderablePages(doc, pageNum) ==
  IF pageNum > Len(doc.pages) THEN <<>>
  ELSE IF doc.pages[pageNum].context /\ doc.pages[pageNum].render
    THEN <<pageNum>> \o RenderablePages(doc, pageNum + 1)
  ELSE RenderablePages(doc, pageNum + 1)

\* C16 (as claimed): loading a PDF that opens does not fail when the image
\* of a page cannot be rendered; the loader returns the units of the pages
\* that can be rendered, in ascending page order.
C16_RenderFailureSkipsPage ==
  (LastLoadedIs(IsPdfFile) /\ Get(lastDoc).doc.opens) =>
    /\ IsSome(failure) => Get(failure).call \notin CallsFor("load", Get(lastDoc).file)
    /\ (pc = "extract" /\ i = Get(lastDoc).file) =>
         [k \in 1..Len(pages) |-> pages[k].pageNumber]
           = RenderablePages(Get(lastDoc).doc, 1)

\* The text an extraction request carries.
RequestText(request) == IF IsSome(request.text) THEN Get(request.text) ELSE ""

\* C17: at most one extraction request is made for a .docx file, with page
\* number 1; once the file is loaded, exactly one request is made for it,
\* carrying the text of the document and no image; when
\* the file or its container cannot be read the run fails with the loader's
\* error (the document-unreadable message for the container) and no request
\* is made for the file.
C17_DocxSingleRequest ==
  /\ \A f \in 0..(Len(pendingFiles) - 1) :
       IsDocxFile(pendingFiles[f + 1]) =>
         /\ Cardinality(CallsFor("extract", f)) <= 1
         /\ \A c \in CallsFor("extract", f) : calls[c].page = 1
         /\ (RunEnded /\ appState = "COMPLETED") =>
              Cardinality(CallsFor("extract", f)) = 1
  /\ LastLoadedIs(IsDocxFile) =>
    LET f == Get(lastDoc).file
        doc == Get(lastDoc).doc
    IN IF doc.readable /\ doc.container
         THEN /\ Cardinality(CallsFor("extract", f)) = 1
              /\ \A c \in CallsFor("extract", f) : calls[c].page = 1
              /\ CallsFor("extract", f) = {Len(calls)} =>
                   /\ IsSome(lastRequest)
                   /\ Get(lastRequest).image = None
                   /\ RequestText(Get(lastRequest)) = doc.text
         ELSE /\ CallsFor("extract", f) = {}
              /\ appState = "ERROR"
              /\ IsSome(failure)
              /\ Get(failure).call \in CallsFor("load", f)
              /\ ~doc.container /\ doc.readable =>
                   errorMsg = Some(MsgDocxUnreadable)

\* C17 witness: in one batch a .docx file has had its single request and a
\* second .docx file turned out to have an unreadable container.
C17_Witness ==
  /\ LastLoadedIs(IsDocxFile)
  /\ Get(lastDoc).file = 1
  /\ Get(lastDoc).doc.readable /\ ~Get(lastDoc).doc.container
  /\ IsDocxFile(pendingFiles[1])
  /\ Cardinality(CallsFor("extract", 0)) = 1
  /\ errorMsg = Some(MsgDocxUnreadable)

\* C18 (as claimed): every extraction request sent carries a page image or a
\* non-empty document text.
C18_RequestHasContent ==
  IsSome(lastRequest) =>
    \/ IsSome(Get(lastRequest).image)
    \/ IsSome(Get(lastRequest).text) /\ Get(Get(lastRequest).text) # ""

\* The trimmed, non-empty names that occur in more than one record.
NamesOccurringTwice(recs) ==
  { n \in { Trim(recs[k].name) : k \in 1..Len(recs) } :
      n # "" /\ Cardinality({ k \in 1..Len(recs) : Trim(recs[k].name) = n }) >= 2 }

\* C19 (as claimed): after a completed run the advisory duplicate set is
\* exactly the set of trimmed names that occur in at least two records of the
\* aggregate (empty when all names are distinct).
C19_DuplicateSetExact ==
  (RunEnded /\ appState = "COMPLETED") =>
    { duplicateNames[k] : k \in 1..Len(duplicateNames) }
      = NamesOccurringTwice(records)

\* ---- reading a CSV text back (RFC 4180): fields separated by commas, rows
\* by line breaks; a field in double quotes may hold commas and line breaks,
\* and a double quote inside it is written twice.
CharAt(s, k) == SubSeq(s, k, k)

\* The position of the quote that closes the quoted field opened at q: the
\* end of the first run of quotes of odd length; 0 when there is none.
ClosingQuote(s, q) ==
  LET isClose(j) ==
        /\ CharAt(s, j) = "\""
        /\ j = Len(s) \/ CharAt(s, j + 1) # "\""
        /\ LET run == { r \in (q + 1)..j :
                         \A t \in r..j : CharAt(s, t) = "\"" }
           IN Cardinality(run) % 2 = 1
      closes == { j \in (q + 1)..Len(s) : isClose(j) }
  IN IF closes = {} THEN 0
     ELSE CHOOSE j \in closes : \A k \in closes : j <= k

\* The end of the unquoted field that starts at pos: the position before the
\* next comma or line break.
UnquotedEnd(s, pos) ==
  LET stops == { j \in pos..Len(s) : CharAt(s, j) \in {",", "\n"} }
  IN IF stops = {} THEN Len(s)
     ELSE (CHOOSE j \in stops : \A k \in stops : j <= k) - 1

\* The content of a quoted field: each doubled quote is one quote.
RECURSIVE Unescape(_)
Unescape(f) ==
  IF Len(f) = 0 THEN ""
  ELSE IF Len(f) >= 2 /\ SubSeq(f, 1, 2) = "\"\""
    THEN "\"" \o Unescape(SubSeq(f, 3, Len(f)))
  ELSE CharAt(f, 1) \o Unescape(SubSeq(f, 2, Len(f)))

\* The rows of the text from the field that starts at pos; row holds the
\* fields of the current row read so far, rows the rows before it.
RECURSIVE CsvFields(_, _, _, _)
CsvFields(s, pos, row, rows) ==
  LET quoted == pos <= Len(s) /\ CharAt(s, pos) = "\""
      last == IF quoted THEN ClosingQuote(s, pos) ELSE UnquotedEnd(s, pos)
      field == IF quoted THEN Unescape(SubSeq(s, pos + 1, last - 1))
               ELSE SubSeq(s, pos, last)
  IN IF quoted /\ last = 0 THEN Thrown(Some("Unterminated quoted field"))
     ELSE IF last = Len(s) THEN Ok(Append(rows, Append(row, field)))
     ELSE IF CharAt(s, last + 1) = ","
       THEN CsvFields(s, last + 2, Append(row, field), rows)
     ELSE IF CharAt(s, last + 1) = "\n"
       THEN CsvFields(s, last + 2, <<>>, Append(rows, Append(row, field)))
     ELSE Thrown(Some("Invalid character after the closing quote"))

\* Reading an exported file: the byte-order mark is dropped, the text parsed.
ParseCsv(content) ==
  CsvFields(SubSeq(content, Len(Bom) + 1, Len(content)), 1, <<>>, <<>>)

\* C20 (as claimed): reading back the CSV that was exported gives the header
\* row and then, for each record in order, its unitTitle, name,
\* supervisorRating and source file name.
C20_CsvRoundTrip ==
  IsSome(download) =>
    ParseCsv(Get(download)) =
      Ok(<<CsvHeader>> \o
         [k \in 1..Len(records) |->
            << records[k].unitTitle, records[k].name,
               records[k].supervisorRating, records[k].fileName >>])

\* The text of one data row: the four fields of the record in the order
\* unit/title, name, rating, source file, each between two double quotes,
\* separated by commas.
DataRowText(r) ==
  "\"" \o r.unitTitle \o "\",\"" \o r.name \o "\",\""
       \o r.supervisorRating \o "\",\"" \o r.fileName \o "\""

\* The header row: the four column names separated by commas.
HeaderRowText ==
  CsvHeader[1] \o "," \o CsvHeader[2] \o "," \o CsvHeader[3] \o ","
    \o CsvHeader[4]

\* text from position pos to its end is, for each of the records from the
\* k-th on and in their order, a line break and the data row of the record.
RECURSIVE DataRowsFrom(_, _, _, _)
DataRowsFrom(text, pos, recs, k) ==
  IF k > Len(recs) THEN pos = Len(text) + 1
  ELSE LET row == "\n" \o DataRowText(recs[k])
       IN /\ pos + Len(row) - 1 <= Len(text)
          /\ SubSeq(text, pos, pos + Len(row) - 1) = row
          /\ DataRowsFrom(text, pos + Len(row), recs, k + 1)

\* C21: the CSV text exported for the k records displayed begins with the
\* byte-order mark, goes on with one header row of the four column names and
\* then holds exactly k data rows, one per record and in record order, each
\* the four fields unit/title, name, rating, source file wrapped in double
\* quotes, and nothing else.  The text is thereby a function of the record
\* sequence: exporting the same sequence again gives the same text.
C21_CsvLayout ==
  IsSome(download) =>
    LET text == Get(download)
        start == Bom \o HeaderRowText
    IN /\ Len(CsvHeader) = 4
       /\ Len(text) >= Len(start)
       /\ SubSeq(text, 1, Len(Bom)) = Bom
       /\ SubSeq(text, 1, Len(start)) = start
       /\ DataRowsFrom(text, Len(start) + 1, records, 1)

\* An export of two different records.
C21_Witness ==
  /\ IsSome(download)
  /\ Len(records) = 2
  /\ records[1].name # records[2].name

\* C22 (as claimed): the progress status exists only while a run is in
\* PROCESSING: it is absent in IDLE, after the run has ended in COMPLETED or
\* ERROR, and after a reset.
C22_StatusOnlyWhileRunning ==
  appState # "PROCESSING" => status = None

\* C23: a reset, from any state in which it is offered, leaves the run state
\* IDLE and the aggregate, the pending files, the error message and the
\* status empty; the aggregate stays empty until a run starts, and the
\* records of a run are those the extractions of that run returned, so no
\* record from before the reset is in the aggregate of a later run.
C23_ResetDiscardsAll ==
  /\ [][HandleReset =>
          /\ appState' = "IDLE"
          /\ records' = <<>>
          /\ pendingFiles' = <<>>
          /\ errorMsg' = None
          /\ status' = None]_vars
  /\ [](appState = "IDLE" => records = <<>>)
  /\ [][appState = "IDLE" /\ appState' = "PROCESSING" => records' = <<>>]_vars
  /\ [](\A k \in 1..Len(records) :
          \E b \in 1..Len(batches) :
            \E j \in 1..Len(batches[b]) : batches[b][j] = records[k])

\* C23 witness: the state after the reset of a completed run that had
\* records (the duplicate names it found are still there).
C23_Witness ==
  /\ appState = "IDLE"
  /\ pendingFiles = <<>>
  /\ duplicateNames # <<>>
  /\ records = <<>>
  /\ status = None

\* The extraction calls made for a page of a file.
ExtractCallsFor(f, pg) ==
  { c \in 1..Len(calls) :
      calls[c].op = "extract" /\ calls[c].file = f /\ calls[c].page = pg }

\* C24: in a run each extraction unit (a page of a file) is sent at most
\* once, and once a call of the run has failed the run makes no further
\* call: the log of its calls no longer grows.
C24_NoRetry ==
  /\ [](\A c \in 1..Len(calls) :
          calls[c].op = "extract" =>
            Cardinality(ExtractCallsFor(calls[c].file, calls[c].page)) = 1)
  /\ [][(IsSome(failure) /\ calls[Get(failure).call].op = "extract")
           => (calls' = calls \/ calls' = <<>>)]_vars
  /\ [][(IsSome(failure) /\ failure' = failure) => calls' = calls]_vars

\* C24 witness: the request for the second page of a file has failed after
\* the request for its first page succeeded.
C24_Witness ==
  /\ IsSome(failure)
  /\ calls[Get(failure).call].op = "extract"
  /\ calls[Get(failure).call].page = 2
  /\ Len(batches) = 1

\* Every page of the document that has a canvas context can be rendered.
NoRenderFailure(doc) ==
  \A k \in 1..Len(doc.pages) : doc.pages[k].context => doc.pages[k].render

\* C25: when the text layer of a page of a PDF cannot be read the loader does
\* not fail: for a PDF that opens and whose pages render, the load is not the
\* failure of the run and the run is not in ERROR, every page with a canvas
\* context is emitted with its rendered image, in page order, the pages after
\* an unreadable one included, and a page whose text layer cannot be read
\* carries the empty text.
C25_TextLayerFailureTolerated ==
  (LastLoadedIs(IsPdfFile) /\ Get(lastDoc).doc.opens
     /\ NoRenderFailure(Get(lastDoc).doc)) =>
    LET doc == Get(lastDoc).doc
        shown == { k \in 1..Len(doc.pages) : doc.pages[k].context }
    IN /\ failure = None
       /\ appState # "ERROR"
       /\ shown # {} => (pc = "extract" /\ i = Get(lastDoc).file)
       /\ (pc = "extract" /\ i = Get(lastDoc).file) =>
            /\ { pages[u].pageNumber : u \in 1..Len(pages) } = shown
            /\ \A u \in 1..Len(pages) :
                 /\ pages[u].base64 # ""
                 /\ pages[u].textContent =
                      IF IsSome(doc.pages[pages[u].pageNumber].text)
                        THEN Get(doc.pages[pages[u].pageNumber].text) ELSE ""

\* C25 witness: a PDF of two pages whose first page has no readable text
\* layer was loaded and both pages are to be sent.
C25_Witness ==
  /\ LastLoadedIs(IsPdfFile)
  /\ Len(Get(lastDoc).doc.pages) = 2
  /\ Get(lastDoc).doc.pages[1].text = None
  /\ pc = "extract"
  /\ Len(pages) = 2
  /\ pages[1].textContent = ""

\* C28: in PROCESSING the status is present, its total is the number of
\* files of the run and at least 1, and its current is between 0 and total;
\* over the status updates of a run current never decreases and total is
\* the number of files the run was started with; when a run has reached
\* COMPLETED its last status update has current = total.
C28_ProgressWithinBounds ==
  /\ appState = "PROCESSING" =>
       /\ IsSome(status)
       /\ Get(status).total = Len(pendingFiles)
       /\ Get(status).total >= 1
       /\ Get(status).current \in 0..Get(status).total
       /\ statusLog # <<>>
       /\ statusLog[Len(statusLog)].update = Get(status)
  /\ \A a, b \in 1..Len(statusLog) :
       a < b => /\ statusLog[a].update.current <= statusLog[b].update.current
                /\ statusLog[a].update.total = statusLog[b].update.total
  /\ \A a \in 1..Len(statusLog) :
       /\ statusLog[a].update.total = Len(pendingFiles)
       /\ statusLog[a].update.current \in 0..Len(pendingFiles)
  /\ (RunEnded /\ appState = "COMPLETED") =>
       statusLog[Len(statusLog)].update.current
         = statusLog[Len(statusLog)].update.total

\* C28 witness: a run of two files is in the middle of its second file.
C28_Witness ==
  /\ appState = "PROCESSING"
  /\ Len(pendingFiles) = 2
  /\ IsSome(status)
  /\ Get(status).current = 1
  /\ Len(statusLog) >= 4

\* C29 (as claimed): the advisory duplicate set never refers to records that
\* are no longer in the aggregate (so it is empty after a reset, after a
\* selection that clears the records and when a later run fails), and in
\* COMPLETED it is the duplicate set of the records displayed.
C29_DuplicateSetNeverStale ==
  LET dups == { duplicateNames[k] : k \in 1..Len(duplicateNames) }
  IN /\ dups \subseteq NamesOccurringTwice(records)
     /\ appState = "COMPLETED" => dups = NamesOccurringTwice(records)
\* C26 (as claimed): in every reachable state of the accumulating variant
\* the error message is set, to a non-empty text, exactly when the run state
\* is ERROR; so every operation that leaves ERROR leaves the message cleared.
C26_MessageIffError ==
  (IsSome(errorMsg) /\ Get(errorMsg) # "") <=> appState = "ERROR"

\* Two files are the same for the pending list: same name and same size.
SameNameAndSize(f, g) == f.name = g.name /\ f.size = g.size

\* C27 (as claimed): the pending list of the accumulating variant never
\* holds two files of the same name and the same size, and of any selection
\* offered in the state reached, every file that no pending file equals in
\* name and size is in the pending list afterwards.
C27_PendingDeduplicated ==
  /\ \A a, b \in 1..Len(pendingFiles) :
       a # b => ~SameNameAndSize(pendingFiles[a], pendingFiles[b])
  /\ \A selection \in AccSelections :
       LET after == MergePending(pendingFiles, FilterValid(selection))
       IN \A k \in 1..Len(selection) :
            \/ ~isValidFile(selection[k])
            \/ \E a \in 1..Len(pendingFiles) :
                 SameNameAndSize(pendingFiles[a], selection[k])
            \/ \E a \in 1..Len(after) : after[a] = selection[k]
====
